---- MODULE Spec2Model ----
(***************************************************************************)
(* A model of the MicroPython BMP180 driver (src/bmp180.py): the class     *)
(* Bmp180 over an I2C bus, the sensor behind the bus, and the compensation *)
(* formulas of the driver.                                                 *)
(*                                                                         *)
(* In Spec the driver has one blocking caller.  Every bus transaction and  *)
(* every sleep of the driver is one step; `trace' holds the transactions   *)
(* of the public operation in progress (or of the last one, once it has    *)
(* ended).  In SpecShared a second caller runs measurements of the same    *)
(* object between the steps of the first.                                  *)
(* The sensor is the environment: its registers are state, and what it     *)
(* does during a wait (finish the conversion or stay busy) is its choice.  *)
(*                                                                         *)
(* Python's `/' is true division.  The formulas are evaluated over exact   *)
(* rationals (numerator and denominator of unbounded size, kept as limb    *)
(* sequences, since the integers of the model checker are 32 bits wide):   *)
(* the float of the interpreter rounds these values, the model does not.   *)
(***************************************************************************)
EXTENDS Integers, Sequences, FiniteSets, Bags, TLC

(***************************************************************************)
(* Unbounded naturals: little-endian sequences of limbs in base Base, with *)
(* no leading zero limb; zero is the empty sequence.  Sums and carries are *)
(* written without recursion (a sum of terms is the cardinality of a bag,  *)
(* a carry is looked ahead), so that long operands cost no stack depth.    *)
(***************************************************************************)
Base == 10^3

Max2(x, y) == IF x >= y THEN x ELSE y

Min2(x, y) == IF x <= y THEN x ELSE y

Limb(a, i) == IF 1 <= i /\ i <= Len(a) THEN a[i] ELSE 0

\* a function on 1..n as the tuple of its values
Tup(f) == f \o <<>>

NatNorm(a) ==
    IF \A k \in 1..Len(a) : a[k] = 0 THEN <<>>
    ELSE SubSeq(a, 1, CHOOSE k \in 1..Len(a) :
                          a[k] # 0 /\ \A m \in (k + 1)..Len(a) : a[m] = 0)

\* the number whose limb k has weight s[k], for entries 0 <= s[k] <= Base:
\* limb k takes a carry when a limb below it is Base and all limbs between
\* are Base - 1
NatRipple(s) ==
    IF \A j \in 1..Len(s) : s[j] # Base THEN NatNorm(s)
    ELSE LET cin(k) == \E j \in 1..(k - 1) :
                           s[j] = Base /\ \A m \in (j + 1)..(k - 1) : s[m] = Base - 1
         IN  NatNorm(Tup([k \in 1..(Len(s) + 1) |->
                             (Limb(s, k) + (IF cin(k) THEN 1 ELSE 0)) % Base]))

\* one pass of carries: every limb keeps its low part and takes the high
\* part of the limb below
NatPass(c) == Tup([k \in 1..(Len(c) + 1) |-> (Limb(c, k) % Base) + (Limb(c, k - 1) \div Base)])

\* the number whose limb k has weight c[k], for entries 0 <= c[k] < 2 * Base
NatCarry1(c) == NatRipple(NatPass(c))

\* the number whose limb k has weight c[k], for entries 0 <= c[k] < Base^4
NatCarry(c) ==
    LET s1 == Tup([k \in 1..(Len(c) + 3) |->
                  (Limb(c, k) % Base)
                  + ((Limb(c, k - 1) \div Base) % Base)
                  + ((Limb(c, k - 2) \div (Base * Base)) % Base)
                  + (Limb(c, k - 3) \div (Base * Base * Base))])
    IN  NatCarry1(NatPass(s1))

\* n >= 0 below Base^4
NatFromInt(n) ==
    NatNorm(<<n % Base, (n \div Base) % Base, (n \div (Base * Base)) % Base,
              n \div (Base * Base * Base)>>)

NatAdd(a, b) ==
    NatCarry1(Tup([k \in 1..Max2(Len(a), Len(b)) |-> Limb(a, k) + Limb(b, k)]))

\* -1, 0, 1 as a < b, a = b, a > b
NatCmp(a, b) ==
    IF Len(a) < Len(b) THEN -1
    ELSE IF Len(a) > Len(b) THEN 1
    ELSE IF \A k \in 1..Len(a) : a[k] = b[k] THEN 0
    ELSE LET top == CHOOSE k \in 1..Len(a) :
                        a[k] # b[k] /\ \A m \in (k + 1)..Len(a) : a[m] = b[m]
         IN  IF a[top] < b[top] THEN -1 ELSE 1

\* a - b for a >= b
NatSub(a, b) ==
    LET c == Tup([k \in 1..Len(a) |-> a[k] - Limb(b, k)])
        \* limb k lends when a limb below it is negative and all between are 0
        bin(k) == \E j \in 1..(k - 1) :
                      c[j] < 0 /\ \A m \in (j + 1)..(k - 1) : c[m] = 0
    IN  NatNorm(Tup([k \in 1..Len(a) |->
                        (c[k] - (IF bin(k) THEN 1 ELSE 0) + Base) % Base]))

\* a * m for one limb m
NatMulLimb(a, m) == NatCarry1(NatPass(Tup([k \in 1..Len(a) |-> a[k] * m])))

\* the sum of a[i] * b[k - i + 1] over i in lo..hi
NatConv(a, b, k, lo, hi) ==
    BagCardinality([i \in lo..hi |-> a[i] * b[k - i + 1] + 1]) - (hi - lo + 1)

NatMul(a, b) ==
    IF a = <<>> \/ b = <<>> THEN <<>>
    ELSE NatCarry(Tup([k \in 1..(Len(a) + Len(b) - 1) |->
                      NatConv(a, b, k, Max2(1, k - Len(b) + 1), Min2(k, Len(a)))]))

\* the largest limb t in lo..hi with d * t <= r (d * lo <= r is given)
RECURSIVE NatDigit(_, _, _, _)
NatDigit(r, d, lo, hi) ==
    IF lo = hi THEN lo
    ELSE LET mid == (lo + hi + 1) \div 2
         IN  IF NatCmp(NatMulLimb(d, mid), r) <= 0
             THEN NatDigit(r, d, mid, hi)
             ELSE NatDigit(r, d, lo, mid - 1)

\* the limb r \div d for r < d * Base: the quotient of the leading limbs
\* of r and d brackets it, and NatDigit decides within the bracket
NatQuotientLimb(r, d) ==
    LET m  == Len(d)
        dh == d[m] * Base + Limb(d, m - 1)
        rh == Limb(r, m + 1) * Base * Base + Limb(r, m) * Base + Limb(r, m - 1)
    IN  NatDigit(r, d, Min2(rh \div (dh + 1), Base - 1),
                       Min2((rh + 1) \div dh, Base - 1))

\* long division by d > 0 of the limbs a[1..i] brought down onto remainder r
\* (r < d): NatDivAt brings limb i down, NatDivLimb finds the quotient limb
\* t, NatDivRest goes on under it (the remainder is computed before the next
\* limb is brought down)
RECURSIVE NatDivAt(_, _, _, _)
NatDivRest(a, d, i, t, rem) ==
    IF NatCmp(rem, d) < 0
    THEN [q |-> NatDivAt(a, d, i - 1, rem).q \o <<t>>]
    ELSE [q |-> <<>>]

NatDivLimb(a, d, i, cur, t) == NatDivRest(a, d, i, t, NatSub(cur, NatMulLimb(d, t)))

NatDivCur(a, d, i, cur) == NatDivLimb(a, d, i, cur, NatQuotientLimb(cur, d))

NatDivAt(a, d, i, r) ==
    IF i = 0 THEN [q |-> <<>>]
    ELSE NatDivCur(a, d, i, NatNorm(<<a[i]>> \o r))

\* a \div d for d > 0: the leading Len(d) - 1 limbs of a are below d, and
\* the limbs under them are brought down one at a time
NatDiv(a, d) ==
    IF NatCmp(a, d) < 0 THEN <<>>
    ELSE LET n == Len(a)
             m == Len(d)
         IN  NatNorm(NatDivAt(a, d, n - m + 1, SubSeq(a, n - m + 2, n)).q)

(***************************************************************************)
(* Unbounded integers: a sign sg in {-1, 0, 1} and a magnitude.            *)
(***************************************************************************)
IMake(sg, mag) == IF mag = <<>> THEN [sg |-> 0, mag |-> <<>>] ELSE [sg |-> sg, mag |-> mag]

IFromInt(n) ==
    IF n = 0 THEN IMake(0, <<>>)
    ELSE IF n < 0 THEN IMake(-1, NatFromInt(-n))
    ELSE IMake(1, NatFromInt(n))

INeg(x) == IMake(-x.sg, x.mag)

IAdd(x, y) ==
    IF x.sg = 0 THEN y
    ELSE IF y.sg = 0 THEN x
    ELSE IF x.sg = y.sg THEN IMake(x.sg, NatAdd(x.mag, y.mag))
    ELSE LET c == NatCmp(x.mag, y.mag)
         IN  IF c = 0 THEN IMake(0, <<>>)
             ELSE IF c > 0 THEN IMake(x.sg, NatSub(x.mag, y.mag))
             ELSE IMake(y.sg, NatSub(y.mag, x.mag))

ISub(x, y) == IAdd(x, INeg(y))

IMul(x, y) ==
    IF x.sg = 0 \/ y.sg = 0 THEN IMake(0, <<>>)
    ELSE IMake(x.sg * y.sg, NatMul(x.mag, y.mag))

\* -1, 0, 1 as x < y, x = y, x > y
ICmp(x, y) == ISub(x, y).sg

\* the value as a model integer, for magnitudes below Base^2
IToInt(x) == x.sg * (Limb(x.mag, 1) + Base * Limb(x.mag, 2))

(***************************************************************************)
(* Exact rationals: Python's float values, unrounded.  A rational is a     *)
(* numerator n and a denominator kept as the bag d of its factors (each a  *)
(* natural above 1), so that a sum over denominators that share factors    *)
(* gets their least common multiple of factors, not their product.         *)
(* Fractions are not reduced: one value has many representations, and      *)
(* values are compared with RCmp.                                          *)
(***************************************************************************)
RMake(n, d) == [n |-> n, d |-> d]

\* the element of a set of one element.  In TheOne({e(v) : v \in {a}}) the
\* value a is computed before the expression e that uses it: the operations
\* on rationals take their operands as values, and the formulas below run
\* statement by statement as the code does.
TheOne(S) == CHOOSE r \in S : TRUE

RFromI(x) == RMake(x, EmptyBag)

RFromInt(k) == RFromI(IFromInt(k))

NatSquare(a) == NatMul(a, a)

\* a^n for n >= 1, by squaring
RECURSIVE NatPower(_, _)
NatPower(a, n) ==
    IF n = 1 THEN a
    ELSE IF n % 2 = 0 THEN NatSquare(NatPower(a, n \div 2))
    ELSE NatMul(a, NatSquare(NatPower(a, n \div 2)))

\* the bag b without the copies of f
BagWithout(b, f) == [g \in BagToSet(b) \ {f} |-> CopiesIn(g, b)]

\* the product of the factors of a bag: one factor at a time, all its copies
\* at once, so that a factor met many times costs little stack depth
RECURSIVE BagProduct(_)
BagProductFrom(b, f) ==
    NatMul(NatPower(f, CopiesIn(f, b)), BagProduct(BagWithout(b, f)))

BagProduct(b) ==
    IF b = EmptyBag THEN NatFromInt(1)
    ELSE BagProductFrom(b, CHOOSE f \in BagToSet(b) : TRUE)

\* x's numerator over the denominator bag L, which contains x.d
RScaled(x, L) == IMul(x.n, IMake(1, BagProduct(L (-) x.d)))

RSum(x, y, L) == RMake(IAdd(RScaled(x, L), RScaled(y, L)), L)

\* x + y over the denominator x.d (+) (y.d (-) x.d)
RAdd(x, y) ==
    TheOne({RSum(xv, yv, xv.d (+) (yv.d (-) xv.d)) : xv \in {x}, yv \in {y}})

RNeg(x) == RMake(INeg(x.n), x.d)

RSub(x, y) == RAdd(x, RNeg(y))

RProduct(x, y) == RMake(IMul(x.n, y.n), x.d (+) y.d)

RMul(x, y) == TheOne({RProduct(xv, yv) : xv \in {x}, yv \in {y}})

RIsZero(x) == x.n.sg = 0

\* the factors a divisor m > 1 adds to a denominator: k factors 2 when m is
\* 2^k (the shift divisors 2 << n of the formulas), m itself otherwise
RFactors(m) ==
    IF Len(m) <= 2 /\ \E k \in 1..19 : Limb(m, 1) + Base * Limb(m, 2) = 2 ^ k
    THEN [f \in {NatFromInt(2)} |->
             CHOOSE k \in 1..19 : Limb(m, 1) + Base * Limb(m, 2) = 2 ^ k]
    ELSE SetToBag({m})

RQuotient(x, y) ==
    RMake(IMul(IMake(x.n.sg * y.n.sg, x.n.mag), IMake(1, BagProduct(y.d))),
          IF y.n.mag = NatFromInt(1) THEN x.d ELSE x.d (+) RFactors(y.n.mag))

\* x / y for y # 0
RDiv(x, y) == TheOne({RQuotient(xv, yv) : xv \in {x}, yv \in {y}})

\* -1, 0, 1 as x < y, x = y, x > y
RCmp(x, y) == RSub(x, y).n.sg

REq(x, y) == RCmp(x, y) = 0

\* Python's int(x) of a float: the integer part, rounded toward zero
RTrunc(x) == IMake(x.n.sg, NatDiv(x.n.mag, BagProduct(x.d)))

\* the largest integer <= x
RFloorFrom(x, t) ==
    IF x.n.sg < 0 /\ ~REq(RFromI(t), x) THEN ISub(t, IFromInt(1)) ELSE t

RFloor(x) == RFloorFrom(x, RTrunc(x))

(***************************************************************************)
(* Python's integer shifts.                                                *)
(***************************************************************************)
Shl(a, n) == a * 2^n

Shr(a, n) == a \div 2^n

(***************************************************************************)
(* The compensation formulas.  cal is the record of the 11 coefficients.   *)
(* A result is [exc, value]: exc names the exception the arithmetic        *)
(* raises ("none" when it returns), value is the float it returns.         *)
(***************************************************************************)
Returned(v) == [exc |-> "none", value |-> v]

Raised(e) == [exc |-> e, value |-> RFromInt(0)]

\* x1 = (raw_temperature - self.cal.ac6) * self.cal.ac5 / (2 << 14)
TempX1(c, ut) ==
    RDiv(RFromI(IMul(IFromInt(ut - c.ac6), IFromInt(c.ac5))),
         RFromInt(Shl(2, 14)))

\* the divisor x1 + self.cal.md of x2
TempDivisor(c, ut) ==
    RAdd(TempX1(c, ut), RFromInt(c.md))

\* x1 + x2, with x2 = self.cal.mc * (2 << 10) / (x1 + self.cal.md)
TempX1PlusX2(c, x1) ==
    RAdd(x1, RDiv(RFromI(IMul(IFromInt(c.mc), IFromInt(Shl(2, 10)))),
                  RAdd(x1, RFromInt(c.md))))

\* b5 = x1 + x2; defined when the divisor of x2 is not zero
TempB5(c, ut) == TheOne({TempX1PlusX2(c, x1) : x1 \in {TempX1(c, ut)}})

\* 0.1 and 0.01
Tenth == RDiv(RFromInt(1), RFromInt(10))

Hundredth == RDiv(RFromInt(1), RFromInt(100))

\* ((b5 + 8) / (2 << 3)) * 0.1
TemperatureFromB5(b5) ==
    RMul(RDiv(RAdd(b5, RFromInt(8)), RFromInt(Shl(2, 3))), Tenth)

CalculateTemperature(c, ut) ==
    IF RIsZero(TempDivisor(c, ut))
    THEN Raised("ZeroDivisionError")
    ELSE Returned(TheOne({TemperatureFromB5(b5) : b5 \in {TempB5(c, ut)}}))

\* x * x
RSquare(x) == RMul(x, x)

\* b6 * b6 / (2 << 11)
PressureB6Sq(b6) == RDiv(RSquare(b6), RFromInt(Shl(2, 11)))

\* the argument self.cal.ac1 * 4 + x3 of int() in
\* b3 = ((int(self.cal.ac1 * 4 + x3) << self.oss) + 2) / 4, with
\* x1 = self.cal.b2 * (b6 * b6 / (2 << 11)) / (2 << 10),
\* x2 = self.cal.ac2 * b6 / (2 << 10) and x3 = x1 + x2
PressureB3NumeratorFrom(c, x1, x2) == RAdd(RFromInt(c.ac1 * 4), RAdd(x1, x2))

PressureB3Numerator(c, b6) ==
    TheOne({PressureB3NumeratorFrom(c, x1, x2) :
               x1 \in {RDiv(RMul(RFromInt(c.b2), sq), RFromInt(Shl(2, 10))) :
                          sq \in {PressureB6Sq(b6)}},
               x2 \in {RDiv(RMul(RFromInt(c.ac2), b6), RFromInt(Shl(2, 10)))}})

\* a variant of PressureB3From that rounds the numerator toward minus infinity
PressureB3Floored(o, numerator) ==
    RDiv(RFromI(IAdd(IMul(RFloor(numerator), IFromInt(Shl(1, o))),
                     IFromInt(2))),
         RFromInt(4))

PressureB3From(o, numerator) ==
    RDiv(RFromI(IAdd(IMul(RTrunc(numerator), IFromInt(Shl(1, o))),
                     IFromInt(2))),
         RFromInt(4))

PressureB3(c, o, b6) ==
    TheOne({PressureB3From(o, numerator) :
               numerator \in {PressureB3Numerator(c, b6)}})

\* x3 = (x1 + x2 + 2) / (2 << 1), with x1 = self.cal.ac3 * b6 / (2 << 12)
\* and x2 = self.cal.b1 * (b6 * b6 / (2 << 11)) / (2 << 15)
PressureB4X3From(x1, x2) ==
    RDiv(RAdd(RAdd(x1, x2), RFromInt(2)), RFromInt(Shl(2, 1)))

PressureB4X3(c, b6) ==
    TheOne({PressureB4X3From(x1, x2) :
               x1 \in {RDiv(RMul(RFromInt(c.ac3), b6), RFromInt(Shl(2, 12)))},
               x2 \in {RDiv(RMul(RFromInt(c.b1), sq), RFromInt(Shl(2, 15))) :
                          sq \in {PressureB6Sq(b6)}}})

\* a variant of PressureB4From that divides by 16384
PressureB4By16384(c, x3) ==
    RDiv(RMul(RFromInt(c.ac4), RAdd(x3, RFromInt(32768))),
         RFromInt(Shl(1, 14)))

\* b4 = self.cal.ac4 * (x3 + 32768) / (2 << 14)
PressureB4From(c, x3) ==
    RDiv(RMul(RFromInt(c.ac4), RAdd(x3, RFromInt(32768))),
         RFromInt(Shl(2, 14)))

PressureB4(c, b6) == TheOne({PressureB4From(c, x3) : x3 \in {PressureB4X3(c, b6)}})

\* 0x80000000
TwoTo31 == RFromI(IMul(IFromInt(32768), IFromInt(65536)))

\* b7 = (raw_pressure - b3) * (50000 >> self.oss)
PressureB7(o, up, b3) ==
    RMul(RSub(RFromInt(up), b3), RFromInt(Shr(50000, o)))

\* p = (b7 * 2) / b4 if b7 < 0x80000000 else (b7 / b4) * 2, for b4 # 0
PressureP(b7, b4) ==
    IF RCmp(b7, TwoTo31) < 0
    THEN RDiv(RMul(b7, RFromInt(2)), b4)
    ELSE RMul(RDiv(b7, b4), RFromInt(2))

\* lines 229..234: p + (x1 + x2 + 3791) / (2 << 3) in hPa, with
\* x1 = (p / (2 << 7)) * (p / (2 << 7)) * 3038 / (2 << 15) and
\* x2 = (-7357 * p) / (2 << 15)
PressureCorrectedFrom(p, x1, x2) ==
    RMul(RAdd(p, RDiv(RAdd(RAdd(x1, x2), RFromInt(3791)), RFromInt(Shl(2, 3)))),
         Hundredth)

PressureCorrected(p) ==
    TheOne({PressureCorrectedFrom(p, x1, x2) :
               x1 \in {RDiv(RMul(sq, RFromInt(3038)), RFromInt(Shl(2, 15))) :
                          sq \in {RSquare(q) : q \in {RDiv(p, RFromInt(Shl(2, 7)))}}},
               x2 \in {RDiv(RMul(RFromInt(-7357), p), RFromInt(Shl(2, 15)))}})

\* lines 227..234, for b4 # 0
PressureFromB(o, up, b3, b4) ==
    TheOne({PressureCorrected(p) :
               p \in {PressureP(b7, b4) : b7 \in {PressureB7(o, up, b3)}}})

\* lines 222..234 once b6 is known
PressureFromB3B4(o, up, b3, b4) ==
    IF RIsZero(b4)
    THEN Raised("ZeroDivisionError")
    ELSE Returned(PressureFromB(o, up, b3, b4))

PressureFromB6(c, o, up, b6) ==
    TheOne({PressureFromB3B4(o, up, b3, b4) :
               b3 \in {PressureB3(c, o, b6)}, b4 \in {PressureB4(c, b6)}})

\* lines 214..234: the arithmetic of __calculate_pressure once the raw
\* temperature has been read
CalculatePressure(c, o, up, ut) ==
    IF RIsZero(TempDivisor(c, ut))
    THEN Raised("ZeroDivisionError")
    ELSE TheOne({PressureFromB6(c, o, up, b6) :
                    b6 \in {RSub(TempB5(c, ut), RFromInt(4000))}})

(***************************************************************************)
(* Constants of the driver.                                                *)
(***************************************************************************)
CHIP_ID == 85

CHIP_ID_REG == 208

SOFT_RESET_REG == 224

CONTROL_REG == 244

MSB_REG == 246

READ_TEMPERATURE == 46

READ_PRESSURE == 52

\* a variant of SOFT_RESET: the command of another operation
WrongResetCommand == READ_TEMPERATURE

SOFT_RESET == 182

TEMPERATURE_CONVERSION_TIME == 4500

PRESSURE_CONVERSION_TIMES == <<4500, 7500, 13500, 25500>>

\* bit 5 of the control register: start of conversion
SCO_MASK == 32

\* CalibrationData.__CALIB_DATA: name, register address, format descriptor
\* (">h" big-endian signed, ">H" big-endian unsigned, 16 bits)
CALIB_DATA ==
    << [name |-> "ac1", addr |-> 170, fmt |-> ">h"],
       [name |-> "ac2", addr |-> 172, fmt |-> ">h"],
       [name |-> "ac3", addr |-> 174, fmt |-> ">h"],
       [name |-> "ac4", addr |-> 176, fmt |-> ">H"],
       [name |-> "ac5", addr |-> 178, fmt |-> ">H"],
       [name |-> "ac6", addr |-> 180, fmt |-> ">H"],
       [name |-> "b1",  addr |-> 182, fmt |-> ">h"],
       [name |-> "b2",  addr |-> 184, fmt |-> ">h"],
       [name |-> "mb",  addr |-> 186, fmt |-> ">h"],
       [name |-> "mc",  addr |-> 188, fmt |-> ">h"],
       [name |-> "md",  addr |-> 190, fmt |-> ">h"] >>

CalNames == {CALIB_DATA[i].name : i \in 1..Len(CALIB_DATA)}

\* CalibrationData.__init__: every coefficient is zero
CalibrationDataInit == [name \in CalNames |-> 0]

(***************************************************************************)
(* Conversions between bytes and integers.                                 *)
(***************************************************************************)
\* int.from_bytes(raw_bytes, byte_count, BYTE_ORDER) as MicroPython 1.12
\* evaluates it: the second argument is taken for the byte order, and
\* anything but 'little' reads big-endian; the value is unsigned
RECURSIVE IntFromBytes(_)
IntFromBytes(raw_bytes) ==
    IF raw_bytes = <<>> THEN 0
    ELSE IntFromBytes(SubSeq(raw_bytes, 1, Len(raw_bytes) - 1)) * 256
         + raw_bytes[Len(raw_bytes)]

\* a variant of Unpack that takes every format for unsigned
UnpackUnsigned(data_format, raw_bytes) == raw_bytes[1] * 256 + raw_bytes[2]

\* ustruct.unpack(data_format, raw_bytes)[0] for the two formats of the table
Unpack(data_format, raw_bytes) ==
    LET u == raw_bytes[1] * 256 + raw_bytes[2]
    IN  IF data_format = ">h" /\ u >= 32768 THEN u - 65536 ELSE u

\* the value _read returns for the bytes the bus delivered (lines 131..136)
ReadValue(data_format, raw_bytes) ==
    IF data_format # "" THEN Unpack(data_format, raw_bytes)
    ELSE IntFromBytes(raw_bytes)

\* a variant of PressureCommand that leaves the oversampling setting out
PressureCommandLowPower(o) == READ_PRESSURE

\* (READ_PRESSURE + (self.oss << 6)).to_bytes(1, BYTE_ORDER)
PressureCommand(o) == READ_PRESSURE + Shl(o, 6)

\* a variant of RawPressure that drops the XLSB byte whatever the
\* oversampling setting is
RawPressureSixteenBits(v, o) == Shr(v, 8)

\* the raw pressure of line 182, from the value of the 3 bytes read
RawPressure(v, o) == Shr(v, 8 - o)

(***************************************************************************)
(* The sensor and the bus: what the environment may do.                    *)
(***************************************************************************)
\* how many public operations a caller invokes on a constructed driver
MaxCalls == 2

\* how many transactions the bus may fail
MaxBusFaults == 1

\* how many times the sensor's identity register or calibration memory may
\* change under the driver
MaxDeviceChanges == 1

\* values the identity register may read
ChipIds == {CHIP_ID, CHIP_ID - 1, 0}

\* values of the oss argument of the constructor: OSS_LOW_POWER ..
\* OSS_ULTRA_HIGH_RES, and 4, which no statement of __init__ keeps out
OssArgs == 0..4

\* the calibration memory of the datasheet's example
SampleImage ==
    (170 :> <<1, 152>>)   @@ (172 :> <<255, 184>>) @@ (174 :> <<199, 209>>) @@
    (176 :> <<127, 229>>) @@ (178 :> <<127, 245>>) @@ (180 :> <<90, 113>>)  @@
    (182 :> <<24, 46>>)   @@ (184 :> <<0, 4>>)     @@ (186 :> <<128, 0>>)   @@
    (188 :> <<221, 249>>) @@ (190 :> <<11, 52>>)

\* contents the calibration memory may have: the datasheet's example, every
\* byte 0xFF, every byte 0
Images ==
    << SampleImage,
       [a \in DOMAIN SampleImage |-> <<255, 255>>],
       [a \in DOMAIN SampleImage |-> <<0, 0>>] >>

\* results a temperature conversion may leave in the MSB, LSB registers
RawTemperatures == {<<108, 250>>, <<255, 255>>}

\* results a pressure conversion may leave in the MSB, LSB, XLSB registers
RawPressures == {<<93, 35, 192>>, <<255, 255, 255>>}

\* what the MSB, LSB, XLSB registers may hold after a conversion
ResultRegisters == RawPressures \cup {t \o <<0>> : t \in RawTemperatures}

Write(reg, data, ok) == [k |-> "write", reg |-> reg, n |-> Len(data), data |-> data, ok |-> ok]

Read(reg, n, data, ok) == [k |-> "read", reg |-> reg, n |-> n, data |-> data, ok |-> ok]

SleepUs(us) == [k |-> "sleep", reg |-> 0, n |-> us, data |-> <<>>, ok |-> TRUE]

VARIABLES
    pc,               \* where the driver is
    op,               \* the public operation in progress, or the last one
    oss,              \* self.oss
    cal,              \* self.cal
    idx,              \* position of __read_calibration_data in CALIB_DATA
    conv,             \* the conversion a measurement is at: "P" or "T"
    raw_pressure,     \* local of read_pressure
    raw_temperature,  \* local of read_temperature / __calculate_pressure
    exc,              \* how the last operation ended: "none" (it returned),
                      \* the exception it raised, or "" while it runs
    value,            \* the float the last measurement returned
    ivalue,           \* the int the last chip_id access returned
    trace,            \* bus transactions and sleeps of the operation
    earlier_raw_temperature,
                      \* history: the raw temperature of the last measurement
                      \* that returned before the operation in progress
    dev_id,           \* sensor: identity register
    dev_ctrl,         \* sensor: control register
    dev_out,          \* sensor: MSB, LSB, XLSB result registers
    dev_image,        \* sensor: which of Images the calibration memory holds
    calls,            \* public operations invoked since construction
    faults,           \* bus transactions that failed
    changes,          \* changes of the sensor under the driver
    other_pc,         \* a second caller of the same driver: where the
                      \* operation it runs is
    other_op,         \* the operation the second caller runs, or the last one
    other_conv,       \* the conversion the second caller's measurement is at
    other_raw_pressure,
                      \* local of the second caller's read_pressure
    other_raw_temperature,
                      \* local of the second caller's measurement
    other_exc,        \* how the second caller's last operation ended
    serialized,       \* whether the two callers serialize their operations
                      \* outside the driver
    ctrl_by           \* history: the caller whose command the control
                      \* register took last (1, 2; 0: no command yet)

driver == <<pc, op, oss, cal, idx, conv, raw_pressure, raw_temperature,
            exc, value, ivalue, trace, earlier_raw_temperature>>

device == <<dev_id, dev_ctrl, dev_out, dev_image>>

\* the second caller's frame of a measurement, and what the callers share
other == <<other_pc, other_op, other_conv, other_raw_pressure,
           other_raw_temperature, other_exc>>

vars == <<driver, device, calls, faults, changes, other, serialized, ctrl_by>>

Init ==
    /\ pc = "new"
    /\ op = "none"
    /\ oss = 0
    /\ cal = CalibrationDataInit
    /\ idx = 0
    /\ conv = ""
    /\ raw_pressure = 0
    /\ raw_temperature = 0
    /\ exc = ""
    /\ value = RFromInt(0)
    /\ ivalue = 0
    /\ trace = <<>>
    /\ earlier_raw_temperature = 0
    /\ dev_id \in ChipIds
    /\ dev_ctrl = 0
    /\ dev_out = <<128, 0, 0>>
    /\ dev_image \in 1..Len(Images)
    /\ calls = 0
    /\ faults = 0
    /\ changes = 0
    /\ other_pc = "idle"
    /\ other_op = "none"
    /\ other_conv = ""
    /\ other_raw_pressure = 0
    /\ other_raw_temperature = 0
    /\ other_exc = ""
    /\ serialized = TRUE
    /\ ctrl_by = 0

(***************************************************************************)
(* The bus.                                                                *)
(***************************************************************************)
\* whether a transaction goes through: the bus may fail it (OSError)
BusOks == IF faults < MaxBusFaults THEN BOOLEAN ELSE {TRUE}

BusCount(ok) == faults' = IF ok THEN faults ELSE faults + 1

\* the bytes readfrom_mem(I2C_ADDRESS, reg, n) delivers
DeviceBytes(reg, n) ==
    IF reg = CHIP_ID_REG THEN <<dev_id>>
    ELSE IF reg = CONTROL_REG THEN <<dev_ctrl>>
    ELSE IF reg = MSB_REG THEN SubSeq(dev_out, 1, n)
    ELSE Images[dev_image][reg]

\* the transaction _read(reg, n) puts on the bus (line 129)
BusRead(reg, n, ok) == Read(reg, n, IF ok THEN DeviceBytes(reg, n) ELSE <<>>, ok)

\* how an operation ends: it returns (e = "none") or raises e.  A constructor
\* that raises leaves no driver behind.
Ends(e) ==
    /\ exc' = e
    /\ pc' = IF op = "init" /\ e # "none" THEN "dead" ELSE "idle"

(***************************************************************************)
(* Construction: Bmp180.__init__.                                          *)
(***************************************************************************)
\* lines 107..109, then the call of __check_chip
Construct(o) ==
    /\ pc = "new"
    /\ pc' = "check_chip"
    /\ op' = "init"
    /\ oss' = o
    /\ cal' = CalibrationDataInit
    /\ exc' = ""
    /\ trace' = <<>>
    /\ UNCHANGED <<idx, conv, raw_pressure, raw_temperature, value, ivalue,
                   earlier_raw_temperature, device, calls, faults, changes>>

\* a variant of ChipOk that accepts every chip id
ChipOkAny(id) == TRUE

\* the condition of the assert of __check_chip, on the chip id read
ChipOk(id) == id = CHIP_ID

\* __check_chip: assert self.chip_id == CHIP_ID, then the call of
\* __read_calibration_data
CheckChip ==
    /\ pc = "check_chip"
    /\ \E ok \in BusOks :
          /\ trace' = Append(trace, BusRead(CHIP_ID_REG, 1, ok))
          /\ BusCount(ok)
          /\ IF ~ok THEN Ends("OSError") /\ UNCHANGED idx
             ELSE IF ~ChipOk(ReadValue("", DeviceBytes(CHIP_ID_REG, 1)))
                  THEN Ends("AssertionError") /\ UNCHANGED idx
                  ELSE pc' = "calib" /\ idx' = 1 /\ UNCHANGED exc
    /\ UNCHANGED <<op, oss, cal, conv, raw_pressure, raw_temperature, value,
                   ivalue, earlier_raw_temperature, device, calls, changes>>

\* a variant of ReadCoefficient that rolls the refresh back when a read fails
ReadCoefficientRollsBack ==
    /\ pc = "calib"
    /\ LET entry == CALIB_DATA[idx]
       IN  \E ok \in BusOks :
             /\ trace' = Append(trace, BusRead(entry.addr, 2, ok))
             /\ BusCount(ok)
             /\ IF ~ok THEN /\ Ends("OSError")
                            /\ cal' = CalibrationDataInit
                            /\ UNCHANGED idx
                ELSE /\ cal' = [cal EXCEPT ![entry.name] =
                                   ReadValue(entry.fmt, DeviceBytes(entry.addr, 2))]
                     /\ IF idx = Len(CALIB_DATA)
                        THEN Ends("none") /\ UNCHANGED idx
                        ELSE idx' = idx + 1 /\ UNCHANGED <<pc, exc>>
    /\ UNCHANGED <<op, oss, conv, raw_pressure, raw_temperature, value, ivalue,
                   earlier_raw_temperature, device, calls, changes>>

(***************************************************************************)
(* __read_calibration_data: one turn of its loop.                          *)
(***************************************************************************)
ReadCoefficient ==
    /\ pc = "calib"
    /\ LET entry == CALIB_DATA[idx]
       IN  \E ok \in BusOks :
             /\ trace' = Append(trace, BusRead(entry.addr, 2, ok))
             /\ BusCount(ok)
             /\ IF ~ok THEN Ends("OSError") /\ UNCHANGED <<cal, idx>>
                ELSE /\ cal' = [cal EXCEPT ![entry.name] =
                                   ReadValue(entry.fmt, DeviceBytes(entry.addr, 2))]
                     /\ IF idx = Len(CALIB_DATA)
                        THEN Ends("none") /\ UNCHANGED idx
                        ELSE idx' = idx + 1 /\ UNCHANGED <<pc, exc>>
    /\ UNCHANGED <<op, oss, conv, raw_pressure, raw_temperature, value, ivalue,
                   earlier_raw_temperature, device, calls, changes>>

(***************************************************************************)
(* The public operations of a constructed driver.                          *)
(***************************************************************************)
\* a caller invokes the operation o; what the last operation returned and
\* the locals of the last operation are gone
Invoke(o) ==
    /\ pc = "idle"
    /\ calls < MaxCalls
    /\ calls' = calls + 1
    /\ op' = o
    /\ value' = RFromInt(0)
    /\ raw_pressure' = 0
    /\ raw_temperature' = 0
    /\ earlier_raw_temperature' =
          IF op \in {"read_temperature", "read_pressure"} /\ exc = "none"
          THEN raw_temperature
          ELSE earlier_raw_temperature

\* recalibrate(): the call of __read_calibration_data
Recalibrate ==
    /\ Invoke("recalibrate")
    /\ exc' = ""
    /\ ivalue' = 0
    /\ pc' = "calib"
    /\ idx' = 1
    /\ trace' = <<>>
    /\ UNCHANGED <<oss, cal, conv, device, faults, changes>>

\* a variant of ChipId that returns the identity checked at construction
\* and reads nothing
ChipIdCached ==
    /\ Invoke("chip_id")
    /\ pc' = "idle"
    /\ trace' = <<>>
    /\ exc' = "none"
    /\ ivalue' = CHIP_ID
    /\ UNCHANGED <<oss, cal, idx, conv, device, faults, changes>>

\* the chip_id property: return self._read(CHIP_ID_REG, 1)
ChipId ==
    /\ Invoke("chip_id")
    /\ pc' = "idle"
    /\ \E ok \in BusOks :
          /\ trace' = <<BusRead(CHIP_ID_REG, 1, ok)>>
          /\ BusCount(ok)
          /\ exc' = IF ok THEN "none" ELSE "OSError"
          /\ IF ok THEN ivalue' = ReadValue("", DeviceBytes(CHIP_ID_REG, 1))
             ELSE ivalue' = 0
    /\ UNCHANGED <<oss, cal, idx, conv, device, changes>>

\* a variant of Reset that also forgets the cached calibration data
ResetClearsCalibration ==
    /\ Invoke("reset")
    /\ pc' = "idle"
    /\ \E ok \in BusOks :
          /\ trace' = <<Write(SOFT_RESET_REG, <<SOFT_RESET>>, ok)>>
          /\ BusCount(ok)
          /\ exc' = IF ok THEN "none" ELSE "OSError"
          /\ dev_ctrl' = IF ok THEN 0 ELSE dev_ctrl
    /\ ivalue' = 0
    /\ cal' = CalibrationDataInit
    /\ UNCHANGED <<oss, idx, conv, dev_id, dev_out, dev_image, changes>>

\* a variant of Reset that also puts the oversampling setting back to 0
ResetRestoresDefaults ==
    /\ Invoke("reset")
    /\ pc' = "idle"
    /\ \E ok \in BusOks :
          /\ trace' = <<Write(SOFT_RESET_REG, <<SOFT_RESET>>, ok)>>
          /\ BusCount(ok)
          /\ exc' = IF ok THEN "none" ELSE "OSError"
          /\ dev_ctrl' = IF ok THEN 0 ELSE dev_ctrl
    /\ ivalue' = 0
    /\ oss' = 0
    /\ UNCHANGED <<cal, idx, conv, dev_id, dev_out, dev_image, changes>>

\* reset(): self._write(SOFT_RESET_REG, SOFT_RESET); the sensor that takes
\* the command clears its control register
Reset ==
    /\ Invoke("reset")
    /\ pc' = "idle"
    /\ \E ok \in BusOks :
          /\ trace' = <<Write(SOFT_RESET_REG, <<SOFT_RESET>>, ok)>>
          /\ BusCount(ok)
          /\ exc' = IF ok THEN "none" ELSE "OSError"
          /\ dev_ctrl' = IF ok THEN 0 ELSE dev_ctrl
    /\ ivalue' = 0
    /\ UNCHANGED <<oss, cal, idx, conv, dev_id, dev_out, dev_image, changes>>

\* read_temperature(): the call of __read_raw_temperature
ReadTemperature ==
    /\ Invoke("read_temperature")
    /\ exc' = ""
    /\ ivalue' = 0
    /\ pc' = "write"
    /\ conv' = "T"
    /\ trace' = <<>>
    /\ UNCHANGED <<oss, cal, idx, device, faults, changes>>

\* read_pressure(): the call of __read_raw_pressure
ReadPressure ==
    /\ Invoke("read_pressure")
    /\ exc' = ""
    /\ ivalue' = 0
    /\ pc' = "write"
    /\ conv' = "P"
    /\ trace' = <<>>
    /\ UNCHANGED <<oss, cal, idx, device, faults, changes>>

(***************************************************************************)
(* __read_raw_temperature and __read_raw_pressure, statement by statement. *)
(***************************************************************************)
\* the command of the conversion (lines 168, 179)
Command(c, o) == IF c = "T" THEN READ_TEMPERATURE ELSE PressureCommand(o)

\* v.to_bytes(1, BYTE_ORDER): the byte of v.  For a value that does not fit
\* in one byte the outcome depends on the Python the driver runs on: an
\* OverflowError, or the low byte of the value.
ToBytes1(v) ==
    IF v < 256 THEN {Returned(v)}
    ELSE {Raised("OverflowError"), Returned(v % 256)}

\* the outcomes of making the command byte of the conversion (the constant
\* of line 36, or line 179)
CommandByte(c, o) ==
    IF c = "T" THEN {Returned(Command(c, o))} ELSE ToBytes1(Command(c, o))

\* whether the wait of the conversion is there: PRESSURE_CONVERSION_TIMES
\* has an entry at the index self.oss (line 181)
HasConversionTime(c, o) == c = "T" \/ o + 1 \in DOMAIN PRESSURE_CONVERSION_TIMES

\* the wait of the conversion (lines 169, 181)
ConversionTime(c, o) ==
    IF c = "T" THEN TEMPERATURE_CONVERSION_TIME ELSE PRESSURE_CONVERSION_TIMES[o + 1]

\* a variant of RawByteCount that reads 3 bytes for a temperature as well
RawByteCountThree(c) == 3

\* the number of bytes read from MSB_REG (lines 170, 182)
RawByteCount(c) == IF c = "T" THEN 2 ELSE 3

\* a variant of WriteCommand that starts no conversion: it goes on to the
\* wait without the write
WriteCommandSkipped ==
    /\ pc = "write"
    /\ pc' = "sleep"
    /\ UNCHANGED <<op, oss, cal, idx, conv, raw_pressure, raw_temperature, exc,
                   value, ivalue, trace, earlier_raw_temperature, device,
                   calls, faults, changes>>

\* a variant of WriteCommand that writes again when the write failed
WriteCommandAgain ==
    /\ pc = "write"
    /\ \E command \in CommandByte(conv, oss) :
          IF command.exc # "none"
          THEN Ends(command.exc) /\ UNCHANGED <<trace, faults, dev_ctrl>>
          ELSE \E ok \in BusOks :
                 /\ trace' = Append(trace, Write(CONTROL_REG, <<command.value>>, ok))
                 /\ BusCount(ok)
                 /\ IF ok THEN pc' = "sleep" /\ dev_ctrl' = command.value
                    ELSE UNCHANGED <<pc, dev_ctrl>>
                 /\ UNCHANGED exc
    /\ UNCHANGED <<op, oss, cal, idx, conv, raw_pressure, raw_temperature, value,
                   ivalue, earlier_raw_temperature, dev_id, dev_out, dev_image,
                   calls, changes>>

\* the command byte of line 179 (for a temperature, the constant of line
\* 36), then self._write(CONTROL_REG, command); the sensor that takes the
\* command starts the conversion
WriteCommand ==
    /\ pc = "write"
    /\ \E command \in CommandByte(conv, oss) :
          IF command.exc # "none"
          THEN Ends(command.exc) /\ UNCHANGED <<trace, faults, dev_ctrl>>
          ELSE \E ok \in BusOks :
                 /\ trace' = Append(trace, Write(CONTROL_REG, <<command.value>>, ok))
                 /\ BusCount(ok)
                 /\ IF ok THEN pc' = "sleep" /\ dev_ctrl' = command.value /\ UNCHANGED exc
                    ELSE Ends("OSError") /\ UNCHANGED dev_ctrl
    /\ UNCHANGED <<op, oss, cal, idx, conv, raw_pressure, raw_temperature, value,
                   ivalue, earlier_raw_temperature, dev_id, dev_out, dev_image,
                   calls, changes>>

\* results the conversion started by the command in the control register
\* may have
ConversionResults ==
    IF dev_ctrl = READ_TEMPERATURE
    THEN {t \o <<0>> : t \in RawTemperatures}
    ELSE RawPressures

\* a variant of Sleep after which the raw value is read without the status
\* check
SleepThenRaw ==
    /\ pc = "sleep"
    /\ IF ~HasConversionTime(conv, oss)
       THEN Ends("IndexError") /\ UNCHANGED <<trace, dev_ctrl, dev_out>>
       ELSE /\ pc' = "raw"
            /\ trace' = Append(trace, SleepUs(ConversionTime(conv, oss)))
            /\ \/ UNCHANGED <<dev_ctrl, dev_out>>
               \/ /\ dev_ctrl \div SCO_MASK % 2 = 1
                  /\ dev_ctrl' = dev_ctrl - SCO_MASK
                  /\ dev_out' \in ConversionResults
            /\ UNCHANGED exc
    /\ UNCHANGED <<op, oss, cal, idx, conv, raw_pressure, raw_temperature,
                   value, ivalue, earlier_raw_temperature, dev_id, dev_image,
                   calls, faults, changes>>

\* utime.sleep_us(...): the driver is blocked for the conversion time.  The
\* sensor finishes a started conversion in that time (it clears the sco bit
\* and sets the result registers), or is still busy after it.  The lookup
\* of the time raises IndexError when the table has no entry for self.oss.
Sleep ==
    /\ pc = "sleep"
    /\ IF ~HasConversionTime(conv, oss)
       THEN Ends("IndexError") /\ UNCHANGED <<trace, dev_ctrl, dev_out>>
       ELSE /\ pc' = "sco"
            /\ trace' = Append(trace, SleepUs(ConversionTime(conv, oss)))
            /\ \/ UNCHANGED <<dev_ctrl, dev_out>>
               \/ /\ dev_ctrl \div SCO_MASK % 2 = 1
                  /\ dev_ctrl' = dev_ctrl - SCO_MASK
                  /\ dev_out' \in ConversionResults
            /\ UNCHANGED exc
    /\ UNCHANGED <<op, oss, cal, idx, conv, raw_pressure, raw_temperature,
                   value, ivalue, earlier_raw_temperature, dev_id, dev_image,
                   calls, faults, changes>>

\* a variant of ScoSet that never finds the sco bit set
ScoNever(v) == FALSE

\* whether the control register value v has the sco bit set: v & 0b100000
ScoSet(v) == v \div SCO_MASK % 2 # 0

\* _read with check_sco: assert (self._read(CONTROL_REG, 1) & 0b100000) == 0
CheckSco ==
    /\ pc = "sco"
    /\ \E ok \in BusOks :
          /\ trace' = Append(trace, BusRead(CONTROL_REG, 1, ok))
          /\ BusCount(ok)
          /\ IF ~ok THEN Ends("OSError")
             ELSE IF ScoSet(ReadValue("", DeviceBytes(CONTROL_REG, 1)))
                  THEN Ends("AssertionError")
                  ELSE pc' = "raw" /\ UNCHANGED exc
    /\ UNCHANGED <<op, oss, cal, idx, conv, raw_pressure, raw_temperature, value,
                   ivalue, earlier_raw_temperature, device, calls, changes>>

\* _read(MSB_REG, 2 or 3), and what the caller does with the value: the raw
\* pressure is shifted and __calculate_pressure starts with the raw
\* temperature read (line 213); the raw temperature goes to the formula
ReadRaw ==
    /\ pc = "raw"
    /\ \E ok \in BusOks :
          /\ trace' = Append(trace, BusRead(MSB_REG, RawByteCount(conv), ok))
          /\ BusCount(ok)
          /\ LET v == ReadValue("", DeviceBytes(MSB_REG, RawByteCount(conv)))
             IN  IF ~ok
                 THEN Ends("OSError") /\ UNCHANGED <<conv, raw_pressure, raw_temperature>>
                 ELSE IF conv = "P"
                      THEN /\ raw_pressure' = RawPressure(v, oss)
                           /\ conv' = "T"
                           /\ pc' = "write"
                           /\ UNCHANGED <<raw_temperature, exc>>
                      ELSE /\ raw_temperature' = v
                           /\ pc' = "calc"
                           /\ UNCHANGED <<conv, raw_pressure, exc>>
    /\ UNCHANGED <<op, oss, cal, idx, value, ivalue, earlier_raw_temperature,
                   device, calls, changes>>

\* the calibration data a refresh reads from the calibration memory image
CalOf(image) ==
    [name \in CalNames |->
        LET entry == CHOOSE e \in {CALIB_DATA[i] : i \in 1..Len(CALIB_DATA)} : e.name = name
        IN  ReadValue(entry.fmt, image[entry.addr])]

\* the arguments __calculate_pressure gets when the calibration data are
\* those of one memory image: <<cal, oss, raw_pressure, raw_temperature>>
\* and, with those of the datasheet's example, when a raw value is read
\* from the result of a conversion of the other kind.  __read_raw_pressure
\* returns no raw pressure unless oss is in 0..3.
PressureArguments ==
    {<<CalOf(Images[i]), o, RawPressure(IntFromBytes(p), o), IntFromBytes(t)>> :
        i \in 1..Len(Images), o \in 0..3, p \in RawPressures, t \in RawTemperatures}
    \cup
    {<<CalOf(SampleImage), o, RawPressure(IntFromBytes(p), o), IntFromBytes(SubSeq(t, 1, 2))>> :
        o \in 0..3, p \in ResultRegisters, t \in ResultRegisters}

\* the arguments __calculate_temperature gets then: <<cal, raw_temperature>>
TemperatureArguments ==
    {<<CalOf(Images[i]), IntFromBytes(t)>> : i \in 1..Len(Images), t \in RawTemperatures}
    \cup
    {<<CalOf(SampleImage), IntFromBytes(SubSeq(t, 1, 2))>> : t \in ResultRegisters}

\* the formulas on these arguments, evaluated once: pairs <<arguments, result>>
PressureResults == {<<a, CalculatePressure(a[1], a[2], a[3], a[4])>> : a \in PressureArguments}

TemperatureResults == {<<a, CalculateTemperature(a[1], a[2])>> : a \in TemperatureArguments}

\* __calculate_temperature(raw_temperature) with self.cal = c
Temperature(c, t) ==
    IF <<c, t>> \in TemperatureArguments
    THEN (CHOOSE r \in TemperatureResults : r[1] = <<c, t>>)[2]
    ELSE CalculateTemperature(c, t)

\* lines 214..234 of __calculate_pressure(raw_pressure) with self.cal = c and
\* self.oss = o, on the raw temperature t read at line 213
Pressure(c, o, p, t) ==
    IF <<c, o, p, t>> \in PressureArguments
    THEN (CHOOSE r \in PressureResults : r[1] = <<c, o, p, t>>)[2]
    ELSE CalculatePressure(c, o, p, t)

\* a variant of Formula that takes the raw temperature of an earlier
\* measurement for the pressure, when there is one
FormulaEarlier ==
    IF op = "read_temperature"
    THEN Temperature(cal, raw_temperature)
    ELSE Pressure(cal, oss, raw_pressure,
                  IF earlier_raw_temperature # 0
                  THEN earlier_raw_temperature
                  ELSE raw_temperature)

\* the formula of the operation on the raw values it has read
Formula ==
    IF op = "read_temperature"
    THEN Temperature(cal, raw_temperature)
    ELSE Pressure(cal, oss, raw_pressure, raw_temperature)

\* __calculate_temperature, or the arithmetic of __calculate_pressure, and
\* the return of the operation
Calculate ==
    /\ pc = "calc"
    /\ LET r == Formula
       IN  /\ Ends(r.exc)
           /\ value' = IF r.exc = "none" THEN r.value ELSE value
    /\ UNCHANGED <<op, oss, cal, idx, conv, raw_pressure, raw_temperature, ivalue,
                   trace, earlier_raw_temperature, device, calls, faults, changes>>

(***************************************************************************)
(* The sensor under the driver: between two operations of the driver it    *)
(* may change.                                                             *)
(***************************************************************************)
\* the identity register comes to read another value
DeviceIdChanges ==
    /\ pc = "idle"
    /\ changes < MaxDeviceChanges
    /\ changes' = changes + 1
    /\ dev_id' \in ChipIds \ {dev_id}
    /\ UNCHANGED <<driver, dev_ctrl, dev_out, dev_image, calls, faults>>

\* the calibration memory comes to hold other contents
DeviceImageChanges ==
    /\ pc = "idle"
    /\ changes < MaxDeviceChanges
    /\ changes' = changes + 1
    /\ dev_image' \in (1..Len(Images)) \ {dev_image}
    /\ UNCHANGED <<driver, dev_id, dev_ctrl, dev_out, calls, faults>>

\* the driver has one caller: no second caller runs, and every command is
\* the first caller's (trace has them)
OneCaller == UNCHANGED <<other, serialized, ctrl_by>>

Next ==
    \/ (\E o \in OssArgs : Construct(o)) /\ OneCaller
    \/ CheckChip /\ OneCaller
    \/ ReadCoefficient /\ OneCaller
    \/ Recalibrate /\ OneCaller
    \/ ChipId /\ OneCaller
    \/ Reset /\ OneCaller
    \/ ReadTemperature /\ OneCaller
    \/ ReadPressure /\ OneCaller
    \/ WriteCommand /\ OneCaller
    \/ Sleep /\ OneCaller
    \/ CheckSco /\ OneCaller
    \/ ReadRaw /\ OneCaller
    \/ Calculate /\ OneCaller
    \/ DeviceIdChanges /\ OneCaller
    \/ DeviceImageChanges /\ OneCaller

Spec == Init /\ [][Next]_vars

(***************************************************************************)
(* Two callers on one driver.  The driver holds no lock (no statement of   *)
(* lines 161..182 takes one): a second caller runs read_temperature() or   *)
(* read_pressure() of the same object, statement by statement, between the *)
(* statements of the first.  The callers may serialize their operations    *)
(* themselves (serialized), or not.                                        *)
(***************************************************************************)
\* the constructor has returned: there is a driver to call
Constructed == op \notin {"none", "init"} \/ (op = "init" /\ pc = "idle")

\* whether the step of the first caller has put a command on the bus that
\* the control register took
FirstCallerCommands ==
    /\ Len(trace') = Len(trace) + 1
    /\ trace'[Len(trace')].k = "write"
    /\ trace'[Len(trace')].reg = CONTROL_REG
    /\ trace'[Len(trace')].ok

\* a step of the first caller while there is a second one
FirstCaller ==
    /\ ctrl_by' = IF FirstCallerCommands THEN 1 ELSE ctrl_by
    /\ UNCHANGED <<other, serialized>>

\* callers that serialize start an operation only when the other caller
\* runs none
FirstCallerMayStart == serialized => other_pc = "idle"

\* the second caller invokes the measurement o, which starts with the
\* conversion c
OtherInvoke(o, c) ==
    /\ Constructed
    /\ other_pc = "idle"
    /\ serialized => pc = "idle"
    /\ calls < MaxCalls
    /\ calls' = calls + 1
    /\ other_op' = o
    /\ other_conv' = c
    /\ other_pc' = "write"
    /\ other_raw_pressure' = 0
    /\ other_raw_temperature' = 0
    /\ other_exc' = ""
    /\ UNCHANGED <<driver, device, faults, changes, serialized, ctrl_by>>

\* read_temperature() of the second caller
OtherReadTemperature == OtherInvoke("read_temperature", "T")

\* read_pressure() of the second caller
OtherReadPressure == OtherInvoke("read_pressure", "P")

\* how an operation of the second caller ends
OtherEnds(e) ==
    /\ other_exc' = e
    /\ other_pc' = "idle"

\* self._write(CONTROL_REG, command) of the second caller
OtherWriteCommand ==
    /\ other_pc = "write"
    /\ \E command \in CommandByte(other_conv, oss) :
          IF command.exc # "none"
          THEN OtherEnds(command.exc) /\ UNCHANGED <<faults, dev_ctrl, ctrl_by>>
          ELSE \E ok \in BusOks :
                 /\ BusCount(ok)
                 /\ IF ok THEN /\ other_pc' = "sleep"
                               /\ dev_ctrl' = command.value
                               /\ ctrl_by' = 2
                               /\ UNCHANGED other_exc
                    ELSE OtherEnds("OSError") /\ UNCHANGED <<dev_ctrl, ctrl_by>>
    /\ UNCHANGED <<driver, dev_id, dev_out, dev_image, calls, changes, serialized,
                   other_op, other_conv, other_raw_pressure, other_raw_temperature>>

\* utime.sleep_us(...) of the second caller
OtherSleep ==
    /\ other_pc = "sleep"
    /\ IF ~HasConversionTime(other_conv, oss)
       THEN OtherEnds("IndexError") /\ UNCHANGED <<dev_ctrl, dev_out>>
       ELSE /\ other_pc' = "sco"
            /\ \/ UNCHANGED <<dev_ctrl, dev_out>>
               \/ /\ dev_ctrl \div SCO_MASK % 2 = 1
                  /\ dev_ctrl' = dev_ctrl - SCO_MASK
                  /\ dev_out' \in ConversionResults
            /\ UNCHANGED other_exc
    /\ UNCHANGED <<driver, dev_id, dev_image, calls, faults, changes, serialized, ctrl_by,
                   other_op, other_conv, other_raw_pressure, other_raw_temperature>>

\* the status check of the second caller's raw read
OtherCheckSco ==
    /\ other_pc = "sco"
    /\ \E ok \in BusOks :
          /\ BusCount(ok)
          /\ IF ~ok THEN OtherEnds("OSError")
             ELSE IF ScoSet(ReadValue("", DeviceBytes(CONTROL_REG, 1)))
                  THEN OtherEnds("AssertionError")
                  ELSE other_pc' = "raw" /\ UNCHANGED other_exc
    /\ UNCHANGED <<driver, device, calls, changes, serialized, ctrl_by,
                   other_op, other_conv, other_raw_pressure, other_raw_temperature>>

\* _read(MSB_REG, 2 or 3) of the second caller
OtherReadRaw ==
    /\ other_pc = "raw"
    /\ \E ok \in BusOks :
          /\ BusCount(ok)
          /\ LET v == ReadValue("", DeviceBytes(MSB_REG, RawByteCount(other_conv)))
             IN  IF ~ok
                 THEN /\ OtherEnds("OSError")
                      /\ UNCHANGED <<other_conv, other_raw_pressure, other_raw_temperature>>
                 ELSE IF other_conv = "P"
                      THEN /\ other_raw_pressure' = RawPressure(v, oss)
                           /\ other_conv' = "T"
                           /\ other_pc' = "write"
                           /\ UNCHANGED <<other_raw_temperature, other_exc>>
                      ELSE /\ other_raw_temperature' = v
                           /\ other_pc' = "calc"
                           /\ UNCHANGED <<other_conv, other_raw_pressure, other_exc>>
    /\ UNCHANGED <<driver, device, calls, changes, serialized, ctrl_by, other_op>>

\* the formula of the second caller's operation on the raw values it has read
OtherFormula ==
    IF other_op = "read_temperature"
    THEN Temperature(cal, other_raw_temperature)
    ELSE Pressure(cal, oss, other_raw_pressure, other_raw_temperature)

\* the arithmetic and the return of the second caller's operation
OtherCalculate ==
    /\ other_pc = "calc"
    /\ OtherEnds(OtherFormula.exc)
    /\ UNCHANGED <<driver, device, calls, faults, changes, serialized, ctrl_by,
                   other_op, other_conv, other_raw_pressure, other_raw_temperature>>

\* the two callers find a sensor that identifies itself, on a bus that
\* fails no transaction; whether they serialize is fixed from the start
InitShared ==
    /\ pc = "new"
    /\ op = "none"
    /\ oss = 0
    /\ cal = CalibrationDataInit
    /\ idx = 0
    /\ conv = ""
    /\ raw_pressure = 0
    /\ raw_temperature = 0
    /\ exc = ""
    /\ value = RFromInt(0)
    /\ ivalue = 0
    /\ trace = <<>>
    /\ earlier_raw_temperature = 0
    /\ dev_id = CHIP_ID
    /\ dev_ctrl = 0
    /\ dev_out = <<128, 0, 0>>
    /\ dev_image = 1
    /\ calls = 0
    /\ faults = MaxBusFaults
    /\ changes = MaxDeviceChanges
    /\ other_pc = "idle"
    /\ other_op = "none"
    /\ other_conv = ""
    /\ other_raw_pressure = 0
    /\ other_raw_temperature = 0
    /\ other_exc = ""
    /\ serialized \in BOOLEAN
    /\ ctrl_by = 0

NextShared ==
    \/ (\E o \in OssArgs : Construct(o)) /\ FirstCaller
    \/ CheckChip /\ FirstCaller
    \/ ReadCoefficient /\ FirstCaller
    \/ ReadTemperature /\ FirstCallerMayStart /\ FirstCaller
    \/ ReadPressure /\ FirstCallerMayStart /\ FirstCaller
    \/ WriteCommand /\ FirstCaller
    \/ Sleep /\ FirstCaller
    \/ CheckSco /\ FirstCaller
    \/ ReadRaw /\ FirstCaller
    \/ Calculate /\ FirstCaller
    \/ OtherReadTemperature
    \/ OtherReadPressure
    \/ OtherWriteCommand
    \/ OtherSleep
    \/ OtherCheckSco
    \/ OtherReadRaw
    \/ OtherCalculate

SpecShared == InitShared /\ [][NextShared]_vars

(***************************************************************************)
(* Properties.  The registers, command bytes, wait times and table rows    *)
(* are written out here as numbers, not taken from the definitions above:  *)
(* 0xD0 = 208, 0xE0 = 224, 0xF4 = 244, 0xF6 = 246, 0x2E = 46, 0xB6 = 182.  *)
(***************************************************************************)
IsWrite(e, reg, byte) == e.k = "write" /\ e.reg = reg /\ e.data = <<byte>>

IsRead(e, reg, n) == e.k = "read" /\ e.reg = reg /\ e.n = n

BigEndian2(d) == d[1] * 256 + d[2]

BigEndian3(d) == (d[1] * 256 + d[2]) * 256 + d[3]

\* bit 5 (0x20) of a byte
Bit5(b) == (b \div 32) % 2

\* the operation in progress has ended by returning
HasReturned == pc = "idle" /\ exc = "none"

\* every read in the trace comes after a wait of at least us microseconds
ReadsAfterWait(us) ==
    \A i \in 1..Len(trace) :
        trace[i].k = "read" =>
            \E j \in 1..(i - 1) : trace[j].k = "sleep" /\ trace[j].n >= us

\* x rounds to k / scale at resolution 1 / scale
RoundsTo(x, k, scale) ==
    /\ RCmp(RMul(x, RFromInt(2 * scale)), RFromInt(2 * k - 1)) >= 0
    /\ RCmp(RMul(x, RFromInt(2 * scale)), RFromInt(2 * k + 1)) < 0

\* C1: a construction whose chip-id read delivers anything but 0x55 fails
\* (the assertion; no driver is left), and its only bus transaction is the
\* 1-byte read of 0xD0: no calibration read, no write.
C1_MismatchFailsBeforeCalibration ==
    (op = "init" /\ trace # <<>> /\ trace[1].ok /\ trace[1].data # <<85>>) =>
        /\ pc = "dead"
        /\ exc = "AssertionError"
        /\ Len(trace) = 1
        /\ IsRead(trace[1], 208, 1)

C1_Witness ==
    /\ pc = "dead"
    /\ exc = "AssertionError"
    /\ trace # <<>>
    /\ trace[1].data = <<84>>

\* the coefficients in table order: name, address, signedness
C2_Table ==
    << <<"ac1", 170, "signed">>,   <<"ac2", 172, "signed">>,
       <<"ac3", 174, "signed">>,   <<"ac4", 176, "unsigned">>,
       <<"ac5", 178, "unsigned">>, <<"ac6", 180, "unsigned">>,
       <<"b1",  182, "signed">>,   <<"b2",  184, "signed">>,
       <<"mb",  186, "signed">>,   <<"mc",  188, "signed">>,
       <<"md",  190, "signed">> >>

\* the 16-bit big-endian value of two bytes, by signedness
C2_Decode(signedness, d) ==
    IF signedness = "signed" /\ BigEndian2(d) >= 32768
    THEN BigEndian2(d) - 65536
    ELSE BigEndian2(d)

\* C2: a calibration refresh that returns (the constructor's, after its
\* chip-id read, or one of recalibrate()) has issued exactly 11 reads, one
\* 2-byte read per coefficient at its table address, and every stored
\* coefficient is the big-endian value just read, unsigned for ac4, ac5, ac6
\* and signed for the others; a later refresh reads all 11 again.
C2_RefreshReadsAllCoefficients ==
    (op \in {"init", "recalibrate"} /\ HasReturned) =>
        LET first == IF op = "init" THEN 1 ELSE 0
        IN  /\ Len(trace) = first + 11
            /\ \A i \in 1..11 :
                  /\ IsRead(trace[first + i], C2_Table[i][2], 2)
                  /\ trace[first + i].ok
                  /\ cal[C2_Table[i][1]] =
                        C2_Decode(C2_Table[i][3], trace[first + i].data)

C2_Witness ==
    /\ op = "recalibrate"
    /\ HasReturned
    /\ changes = 1
    /\ dev_id = 85
    /\ dev_image = 2
    /\ cal["ac1"] = -1
    /\ cal["ac4"] = 65535

\* C3: in read_temperature() the first bus transaction writes the byte 0x2E
\* to 0xF4, every bus read comes after a wait of at least 4500 microseconds,
\* and the raw temperature is the big-endian value of the one read of 0xF6,
\* which is 2 bytes long.
C3_TemperatureSequence ==
    op = "read_temperature" =>
        /\ trace # <<>> => IsWrite(trace[1], 244, 46)
        /\ ReadsAfterWait(4500)
        /\ \A i \in 1..Len(trace) :
              (trace[i].k = "read" /\ trace[i].reg = 246) =>
                  /\ trace[i].n = 2
                  /\ i = Len(trace)
                  /\ trace[i].ok => raw_temperature = BigEndian2(trace[i].data)
        /\ (pc = "calc" \/ HasReturned) =>
              /\ Len(trace) = 4
              /\ IsRead(trace[4], 246, 2)
              /\ trace[4].ok

C3_Witness ==
    /\ op = "read_temperature"
    /\ HasReturned
    /\ raw_temperature = 27898
    /\ Len(trace) = 4

\* C4: for every oss in 0..3, read_pressure() first writes the byte
\* 0x34 + (oss << 6) to 0xF4, waits the table duration of that oss before
\* any bus read, and reads the raw pressure as 3 bytes from 0xF6.
C4_PressureSequence ==
    op = "read_pressure" /\ oss \in 0..3 =>
        LET command == <<52, 116, 180, 244>>
            wait    == <<4500, 7500, 13500, 25500>>
        IN  /\ trace # <<>> => IsWrite(trace[1], 244, command[oss + 1])
            /\ Len(trace) >= 2 => trace[2].k = "sleep" /\ trace[2].n = wait[oss + 1]
            /\ \A i \in 1..Len(trace) : trace[i].k = "read" => i > 2
            /\ Len(trace) >= 4 =>
                  /\ \A i \in 1..3 : ~(trace[i].k = "read" /\ trace[i].reg = 246)
                  /\ IsRead(trace[4], 246, 3)
                  /\ trace[4].ok =>
                        raw_pressure = BigEndian3(trace[4].data) \div 2^(8 - oss)

C4_Witness ==
    /\ op = "read_pressure"
    /\ oss = 3
    /\ Len(trace) >= 4
    /\ trace[4].ok
    /\ raw_pressure = 190750

\* C5: a read_pressure() that returns has run exactly one temperature
\* conversion of its own after its raw pressure read (write 0x2E to 0xF4,
\* wait of at least 4500 microseconds, status read, 2-byte read of 0xF6),
\* and its result is the pressure formula on the raw temperature of that
\* read: no raw temperature of an earlier operation enters it.
C5_FreshTemperature ==
    (op = "read_pressure" /\ HasReturned) =>
        /\ Len(trace) = 8
        /\ IsRead(trace[4], 246, 3)
        /\ {i \in 1..8 : trace[i].k = "write" /\ trace[i].data = <<46>>} = {5}
        /\ IsWrite(trace[5], 244, 46)
        /\ trace[6].k = "sleep" /\ trace[6].n >= 4500
        /\ IsRead(trace[7], 244, 1) /\ Bit5(trace[7].data[1]) = 0
        /\ IsRead(trace[8], 246, 2)
        /\ raw_temperature = BigEndian2(trace[8].data)
        /\ value = Pressure(cal, oss, BigEndian3(trace[4].data) \div 2^(8 - oss),
                            BigEndian2(trace[8].data)).value

C5_Witness ==
    /\ op = "read_pressure"
    /\ HasReturned
    /\ calls = 2
    /\ earlier_raw_temperature = 65535
    /\ raw_temperature = 27898

\* C6: when the status read of 0xF4 after the wait has bit 5 set, the
\* measurement (read_temperature, read_pressure, or the temperature
\* conversion inside read_pressure) ends there with the assertion failure:
\* no reading is returned, no formula is applied, and nothing follows the
\* status read, neither a wait nor a second status read.
C6_ConversionNotComplete ==
    op \in {"read_temperature", "read_pressure"} =>
        \A i \in 1..Len(trace) :
            (IsRead(trace[i], 244, 1) /\ trace[i].ok /\ Bit5(trace[i].data[1]) = 1) =>
                /\ i = Len(trace)
                /\ pc = "idle"
                /\ exc = "AssertionError"
                /\ value = RFromInt(0)

C6_Witness ==
    /\ op = "read_pressure"
    /\ exc = "AssertionError"
    /\ Len(trace) = 7
    /\ Bit5(trace[7].data[1]) = 1

\* C7: reset() issues one bus transaction, the write of the byte 0xB6 to
\* 0xE0, no read and no wait, and leaves the calibration data and the
\* oversampling setting as they were.
C7_ResetWritesOnce ==
    [][op' = "reset" =>
          /\ Len(trace') = 1
          /\ IsWrite(trace'[1], 224, 182)
          /\ cal' = cal
          /\ oss' = oss]_vars

C7_Witness ==
    /\ op = "reset"
    /\ HasReturned
    /\ oss = 3
    /\ cal["ac1"] = 408

\* C8: every access of chip_id issues exactly one 1-byte read of 0xD0 and
\* returns what the identity register holds at that access, not the value
\* checked at construction.
C8_ChipIdIsLive ==
    [][(calls' # calls /\ op' = "chip_id") =>
          /\ Len(trace') = 1
          /\ IsRead(trace'[1], 208, 1)
          /\ exc' = "none" =>
                /\ trace'[1].ok
                /\ ivalue' = trace'[1].data[1]
                /\ ivalue' = dev_id']_vars

C8_Witness ==
    /\ op = "chip_id"
    /\ HasReturned
    /\ ivalue = 0
    /\ changes = 1

\* the sample calibration set
C9_Calibration ==
    [ac1 |-> 408, ac2 |-> -72, ac3 |-> -14383, ac4 |-> 32741, ac5 |-> 32757,
     ac6 |-> 23153, b1 |-> 6190, b2 |-> 4, mb |-> -32768, mc |-> -8711,
     md |-> 2868]

\* a measurement has returned on the sample calibration set, UT = 27898 and,
\* for a pressure, UP = 23843 at oss = 0
C9_SampleReturned(o) ==
    /\ op = o
    /\ HasReturned
    /\ cal = C9_Calibration
    /\ raw_temperature = 27898
    /\ o = "read_pressure" => raw_pressure = 23843 /\ oss = 0

\* C9: on the sample calibration set with UT = 27898, UP = 23843 and oss = 0
\* the formulas give a temperature that rounds to 15.0 degrees C at 0.1 and
\* a pressure that rounds to 699.64 hPa at 0.01.
C9_DatasheetReference ==
    /\ C9_SampleReturned("read_temperature") => RoundsTo(value, 150, 10)
    /\ C9_SampleReturned("read_pressure") => RoundsTo(value, 69964, 100)

\* the pressure the formulas give on these inputs rounds to 699.61 hPa
C9_Witness ==
    /\ C9_SampleReturned("read_pressure")
    /\ RoundsTo(value, 69961, 100)

\* C10: no step of a constructed driver changes the oversampling setting:
\* oss changes only in the constructor.
C10_OssImmutable == [][pc # "new" => oss' = oss]_vars

C10_Witness ==
    /\ op = "read_pressure"
    /\ HasReturned
    /\ calls = 2
    /\ oss = 2

\* the state after a refresh whose k-th coefficient read failed: the fault is
\* propagated, the failed read is the last transaction, the coefficients
\* before k hold the values just read and, in the constructor, the
\* coefficients from k on are zero
C11_FailedRefresh ==
    LET first == IF op = "init" THEN 1 ELSE 0
        k == Len(trace) - first
    IN  (/\ op \in {"init", "recalibrate"}
         /\ k >= 1
         /\ ~trace[Len(trace)].ok) =>
            /\ exc = "OSError"
            /\ pc = (IF op = "init" THEN "dead" ELSE "idle")
            /\ k <= 11
            /\ IsRead(trace[Len(trace)], C2_Table[k][2], 2)
            /\ \A i \in 1..(k - 1) :
                  /\ trace[first + i].ok
                  /\ IsRead(trace[first + i], C2_Table[i][2], 2)
                  /\ cal[C2_Table[i][1]] =
                        C2_Decode(C2_Table[i][3], trace[first + i].data)
            /\ op = "init" => \A i \in k..11 : cal[C2_Table[i][1]] = 0

\* one step of a refresh: a failed read stores nothing and undoes nothing, a
\* read that went through changes the coefficient it read and no other, and
\* once the refresh has failed no transaction follows in it (calls counts
\* the operations begun: it is unchanged within one operation)
C11_RefreshStep ==
    LET first == IF op = "init" THEN 1 ELSE 0
        k == Len(trace') - first
    IN  /\ (op \in {"init", "recalibrate"} /\ calls' = calls
              /\ exc = "OSError") =>
              trace' = trace /\ cal' = cal
        /\ (op \in {"init", "recalibrate"} /\ calls' = calls
              /\ trace' # trace /\ k >= 1) =>
              /\ Len(trace') = Len(trace) + 1
              /\ \A i \in 1..11 :
                    (i # k \/ ~trace'[Len(trace')].ok) =>
                        cal'[C2_Table[i][1]] = cal[C2_Table[i][1]]

\* C11: when the bus fails on the k-th coefficient read of a calibration
\* refresh, the refresh ends with that transport fault, no read of a later
\* coefficient follows, coefficients 1..k-1 hold the values just read and
\* coefficients k..11 are the ones from before the refresh (every step of a
\* refresh leaves them alone; in the constructor they are zero).
C11_PartialRefresh == [][C11_FailedRefresh' /\ C11_RefreshStep]_vars

\* recalibrate() failed on its 5th read after the sensor's coefficients
\* changed: ac1..ac4 are the new ones, ac5 is the old one
C11_Witness ==
    /\ op = "recalibrate"
    /\ exc = "OSError"
    /\ Len(trace) = 5
    /\ cal["ac4"] = 65535
    /\ cal["ac5"] = 32757
    /\ cal["md"] = 2868

\* the divisors of the pressure compensation, in the order of its steps:
\* b6*b6/d[1] (in x1 and in x2), x1 = (b2*..)/d[2], x2 = ac2*b6/d[3],
\* b3 = (..)/d[4], x1 = ac3*b6/d[5], x2 = (b1*..)/d[6], x3 = (..)/d[7],
\* b4 = ac4*(x3+32768)/d[8], x1 = (p/d[9])*(p/d[9]), x1 = (x1*3038)/d[10],
\* x2 = (-7357*p)/d[11], p = p + (x1+x2+3791)/d[12]
C12_StatedDivisors ==
    <<4096, 1024, 1024, 4, 8192, 65536, 4, 16384, 128, 32768, 32768, 8>>

\* 2 << n is 2^(n+1): 2 << 10 = 2048, 2 << 14 = 32768, 2 << 7 = 256,
\* 2 << 15 = 65536, 2 << 3 = 16
C12_ShiftDivisors ==
    <<4096, 2048, 2048, 4, 8192, 65536, 4, 32768, 256, 65536, 65536, 16>>

C12_Sq(d, b6) == RDiv(RMul(b6, b6), RFromInt(d[1]))

\* x3 = x1 + x2 of b3
C12_X3OfB3(d, c, b6) ==
    TheOne({RAdd(RDiv(RMul(RFromInt(c.b2), sq), RFromInt(d[2])),
                 RDiv(RMul(RFromInt(c.ac2), b6), RFromInt(d[3]))) :
               sq \in {C12_Sq(d, b6)}})

C12_B3(d, c, o, b6) ==
    TheOne({RDiv(RFromI(IAdd(IMul(RTrunc(numerator), IFromInt(2 ^ o)),
                             IFromInt(2))),
                 RFromInt(d[4])) :
               numerator \in {RAdd(RFromInt(c.ac1 * 4), x3) :
                                 x3 \in {C12_X3OfB3(d, c, b6)}}})

C12_X3(d, c, b6) ==
    TheOne({RDiv(RAdd(RAdd(x1, x2), RFromInt(2)), RFromInt(d[7])) :
               x1 \in {RDiv(RMul(RFromInt(c.ac3), b6), RFromInt(d[5]))},
               x2 \in {RDiv(RMul(RFromInt(c.b1), sq), RFromInt(d[6])) :
                          sq \in {C12_Sq(d, b6)}}})

C12_B4(d, c, b6) ==
    TheOne({RDiv(RMul(RFromInt(c.ac4), RAdd(x3, RFromInt(32768))), RFromInt(d[8])) :
               x3 \in {C12_X3(d, c, b6)}})

C12_B7(o, up, b3) == RMul(RSub(RFromInt(up), b3), RFromInt(50000 \div 2 ^ o))

\* (b7 * 2) / b4 and (b7 / b4) * 2 are the same number
C12_P(b7, b4) == RDiv(RMul(b7, RFromInt(2)), b4)

C12_X1(d, p) ==
    TheOne({RDiv(RMul(RMul(q, q), RFromInt(3038)), RFromInt(d[10])) :
               q \in {RDiv(p, RFromInt(d[9]))}})

C12_X2(d, p) == RDiv(RMul(RFromInt(-7357), p), RFromInt(d[11]))

\* the result in hPa
C12_Final(d, p) ==
    TheOne({RDiv(RAdd(p, RDiv(RAdd(RAdd(x1, x2), RFromInt(3791)), RFromInt(d[12]))),
                 RFromInt(100)) :
               x1 \in {C12_X1(d, p)}, x2 \in {C12_X2(d, p)}})

\* the pressure compensation with the divisors d, for b4 # 0
C12_Pressure(d, c, o, up, b6) ==
    TheOne({C12_Final(d, p) :
               p \in {C12_P(b7, b4) :
                         b7 \in {C12_B7(o, up, b3) : b3 \in {C12_B3(d, c, o, b6)}},
                         b4 \in {C12_B4(d, c, b6)}}})

\* the same on the arguments a = <<cal, oss, raw_pressure, raw_temperature>>,
\* with b6 = b5 - 4000
C12_PressureOn(d, a) ==
    TheOne({C12_Pressure(d, a[1], a[2], a[3], b6) :
               b6 \in {RSub(TempB5(a[1], a[4]), RFromInt(4000))}})

\* the arguments on which the compensation returns
C12_Returning ==
    {a \in {<<CalOf(Images[i]), o, RawPressure(IntFromBytes(p), o), IntFromBytes(t)>> :
               i \in 1..Len(Images), o \in 0..3, p \in RawPressures, t \in RawTemperatures} :
        Pressure(a[1], a[2], a[3], a[4]).exc = "none"}

\* the compensation with either list of divisors on these arguments
C12_StatedResults ==
    {<<a, C12_PressureOn(C12_StatedDivisors, a)>> : a \in C12_Returning}

C12_ShiftResults ==
    {<<a, C12_PressureOn(C12_ShiftDivisors, a)>> : a \in C12_Returning}

\* the arguments of the compensation in the current state
C12_Arguments == <<cal, oss, raw_pressure, raw_temperature>>

C12_Stated(a) == (CHOOSE r \in C12_StatedResults : r[1] = a)[2]

C12_Shift(a) == (CHOOSE r \in C12_ShiftResults : r[1] = a)[2]

\* C12: every pressure read_pressure() returns on the calibration data of one
\* memory image is the result of the compensation whose steps divide by 4096, 2048, 2048, 4, 8192, 65536, 4,
\* 32768, 256, 65536, 65536 and 16: each divisor 2 << n of
\* __calculate_pressure is 2^(n+1).
C12_DivisorsAreShifts ==
    (op = "read_pressure" /\ HasReturned /\ C12_Arguments \in C12_Returning) =>
        REq(value, C12_Shift(C12_Arguments))

\* C12 as stated: the steps divide by 4096, 1024, 1024, 4, 8192, 65536, 4,
\* 16384, 128, 32768, 32768 and 8.
C12_DivisorsAsStated ==
    (op = "read_pressure" /\ HasReturned /\ C12_Arguments \in C12_Returning) =>
        REq(value, C12_Stated(C12_Arguments))

\* read_pressure() has returned on the datasheet's calibration: its value is
\* the one of the divisors 2^(n+1), not the one of the stated divisors
C12_Witness ==
    /\ op = "read_pressure"
    /\ HasReturned
    /\ cal["ac1"] = 408
    /\ cal["md"] = 2868
    /\ oss = 1
    /\ raw_temperature = 27898
    /\ C12_Arguments \in C12_Returning
    /\ REq(value, C12_Shift(C12_Arguments))
    /\ ~REq(value, C12_Stated(C12_Arguments))

\* x rounded to an integer toward zero, or toward minus infinity
C13_Round(mode, x) == IF mode = "floor" THEN RFloor(x) ELSE RTrunc(x)

\* b3 with the numerator ac1*4 + x3 rounded as mode says
C13_B3(mode, c, o, b6) ==
    TheOne({RDiv(RFromI(IAdd(IMul(C13_Round(mode, numerator), IFromInt(2 ^ o)),
                             IFromInt(2))),
                 RFromInt(4)) :
               numerator \in {RAdd(RFromInt(c.ac1 * 4), x3) :
                                 x3 \in {C12_X3OfB3(C12_ShiftDivisors, c, b6)}}})

C13_PressureFrom(mode, c, o, up, b6) ==
    TheOne({C12_Final(C12_ShiftDivisors, p) :
               p \in {C12_P(b7, b4) :
                         b7 \in {C12_B7(o, up, b3) : b3 \in {C13_B3(mode, c, o, b6)}},
                         b4 \in {C12_B4(C12_ShiftDivisors, c, b6)}}})

\* the pressure compensation on a = <<cal, oss, raw_pressure, raw_temperature>>
C13_PressureOn(mode, a) ==
    TheOne({C13_PressureFrom(mode, a[1], a[2], a[3], b6) :
               b6 \in {RSub(TempB5(a[1], a[4]), RFromInt(4000))}})

C13_TowardZeroResults ==
    {<<a, C13_PressureOn("toward zero", a)>> : a \in C12_Returning}

C13_FloorResults ==
    {<<a, C13_PressureOn("floor", a)>> : a \in C12_Returning}

C13_TowardZero(a) == (CHOOSE r \in C13_TowardZeroResults : r[1] = a)[2]

C13_Floor(a) == (CHOOSE r \in C13_FloorResults : r[1] = a)[2]

\* C13: every pressure read_pressure() returns on the calibration data of one
\* memory image is the one of the compensation in which the numerator
\* ac1*4 + x3 of b3 is rounded toward zero (int()) before it is shifted left
\* by oss.
C13_NumeratorTowardZero ==
    (op = "read_pressure" /\ HasReturned /\ C12_Arguments \in C12_Returning) =>
        REq(value, C13_TowardZero(C12_Arguments))

\* C13 as stated: the numerator is rounded toward minus infinity.
C13_NumeratorFloored ==
    (op = "read_pressure" /\ HasReturned /\ C12_Arguments \in C12_Returning) =>
        REq(value, C13_Floor(C12_Arguments))

\* read_pressure() has returned on the calibration data whose bytes are all
\* 0xFF (ac1 = -1: ac1*4 + x3 = -714.43 at UT = 27898): the value is the one
\* of the numerator -714, not the one of the numerator -715
C13_Witness ==
    /\ op = "read_pressure"
    /\ HasReturned
    /\ cal["ac1"] = -1
    /\ cal["md"] = -1
    /\ raw_temperature = 27898
    /\ C12_Arguments \in C12_Returning
    /\ REq(value, C13_TowardZero(C12_Arguments))
    /\ ~REq(value, C13_Floor(C12_Arguments))

\* the wait that follows the command byte b written to 0xF4, in microseconds
C14_Wait(b) ==
    IF b = 46 THEN 4500
    ELSE IF b = 52 THEN 4500
    ELSE IF b = 116 THEN 7500
    ELSE IF b = 180 THEN 13500
    ELSE 25500

\* C14: in read_temperature() and read_pressure() every status read of 0xF4
\* comes right after the full wait, which comes right after the command
\* write; every raw read of 0xF6 comes right after a status read that went
\* through with bit 5 equal to 0; and nothing is computed before the last raw
\* read has returned.
C14_MeasurementOrder ==
    op \in {"read_temperature", "read_pressure"} =>
        /\ \A i \in 1..Len(trace) :
              /\ IsRead(trace[i], 244, 1) =>
                    /\ i >= 3
                    /\ trace[i - 1].k = "sleep"
                    /\ trace[i - 2].k = "write"
                    /\ trace[i - 2].reg = 244
                    /\ trace[i - 2].ok
                    /\ trace[i - 1].n = C14_Wait(trace[i - 2].data[1])
              /\ trace[i].k = "read" /\ trace[i].reg = 246 =>
                    /\ i >= 4
                    /\ IsRead(trace[i - 1], 244, 1)
                    /\ trace[i - 1].ok
                    /\ Bit5(trace[i - 1].data[1]) = 0
              /\ trace[i].k = "read" => trace[i].reg \in {244, 246}
        /\ (pc = "calc" \/ HasReturned) =>
              /\ trace # <<>>
              /\ IsRead(trace[Len(trace)], 246, 2)
              /\ trace[Len(trace)].ok
        /\ ~HasReturned => value = RFromInt(0)

\* read_pressure() has returned: two conversions, each in this order
C14_Witness ==
    /\ op = "read_pressure"
    /\ HasReturned
    /\ oss = 3
    /\ Len(trace) = 8
    /\ trace[2].n = 25500
    /\ IsRead(trace[4], 246, 3)
    /\ trace[6].n = 4500
    /\ value # RFromInt(0)

\* one conversion: command byte b to 0xF4, the wait, the status read, the
\* raw read of n bytes
C15_Conversion(b, n) ==
    << <<"write", 244, b>>, <<"sleep", 0, C14_Wait(b)>>,
       <<"read", 244, 1>>, <<"read", 246, n>> >>

\* the transactions and waits of a public operation, in order, each once
C15_Sequence ==
    IF op = "init"
    THEN << <<"read", 208, 1>> >> \o [i \in 1..11 |-> <<"read", C2_Table[i][2], 2>>]
    ELSE IF op = "recalibrate"
    THEN [i \in 1..11 |-> <<"read", C2_Table[i][2], 2>>]
    ELSE IF op = "chip_id" THEN << <<"read", 208, 1>> >>
    ELSE IF op = "reset" THEN << <<"write", 224, 182>> >>
    ELSE IF op = "read_temperature" THEN C15_Conversion(46, 2)
    ELSE IF op = "read_pressure"
    THEN C15_Conversion((52 + 64 * oss) % 256, 3) \o C15_Conversion(46, 2)
    ELSE <<>>

\* the trace entry e is the step s of a sequence
C15_Is(e, s) ==
    /\ e.k = s[1]
    /\ e.k = "write" => e.reg = s[2] /\ e.data = <<s[3]>>
    /\ e.k = "read" => e.reg = s[2] /\ e.n = s[3]
    /\ e.k = "sleep" => e.n = s[3]

\* C15: in every public operation what has gone to the bus is a prefix of the
\* operation's sequence (each transaction at most once, none repeated), and
\* a transaction that failed is the last one: the operation has ended with
\* the transport failure and nothing, transaction or wait, follows it.
C15_NoRetry ==
    /\ Len(trace) <= Len(C15_Sequence)
    /\ \A i \in 1..Len(trace) :
          /\ C15_Is(trace[i], C15_Sequence[i])
          /\ (trace[i].k # "sleep" /\ ~trace[i].ok) =>
                /\ i = Len(trace)
                /\ exc = "OSError"
                /\ pc \in {"idle", "dead"}

\* read_pressure() failed on the command write of its second conversion
C15_Witness ==
    /\ op = "read_pressure"
    /\ exc = "OSError"
    /\ pc = "idle"
    /\ Len(trace) = 5
    /\ trace[5].k = "write"
    /\ ~trace[5].ok

\* C16: on a constructed driver with oss in 0..3, read_temperature() and
\* read_pressure() end only by returning a reading, with ConversionNotComplete
\* (the assertion) or with TransportFailure (OSError).
C16_OnlyTaxonomyErrors ==
    (op \in {"read_temperature", "read_pressure"} /\ pc = "idle"
       /\ oss \in 0..3) =>
        exc \in {"none", "AssertionError", "OSError"}

\* read_temperature() on the all-zero calibration data, after its raw read
\* went through, has ended with ZeroDivisionError
C16_Witness ==
    /\ op = "read_temperature"
    /\ pc = "idle"
    /\ exc = "ZeroDivisionError"
    /\ \A name \in DOMAIN cal : cal[name] = 0
    /\ Len(trace) = 4
    /\ trace[4].ok

(***************************************************************************)
(* C17, under SpecShared: two callers of one driver.                       *)
(***************************************************************************)
\* the step is a raw read of 0xF6 by the first caller that delivers
C17_FirstReadsRaw ==
    /\ pc = "raw"
    /\ Len(trace') = Len(trace) + 1
    /\ IsRead(trace'[Len(trace')], 246, IF conv = "T" THEN 2 ELSE 3)
    /\ trace'[Len(trace')].ok

\* the step is a raw read of 0xF6 by the second caller that delivers
C17_OtherReadsRaw ==
    /\ other_pc = "raw"
    /\ other_pc' \in {"write", "calc"}

\* the raw values of the results a conversion of the kind c may have, as the
\* measurement of a driver with the oversampling setting o takes them
C17_OwnResults(c, o) ==
    IF c = "T"
    THEN {BigEndian2(t) : t \in RawTemperatures}
    ELSE {BigEndian3(p) \div 2 ^ (8 - o) : p \in RawPressures}

\* C17: when the two callers serialize their operations, no command write of
\* the other caller comes between an operation's command write and its raw
\* read: at every raw read of 0xF6 the last command the control register
\* took is the reader's own, and the raw value read is a result of the
\* conversion that command started.
C17_SerializedIsExclusive ==
    [][serialized =>
         /\ C17_FirstReadsRaw =>
               /\ ctrl_by = 1
               /\ (IF conv = "T" THEN raw_temperature' ELSE raw_pressure')
                     \in C17_OwnResults(conv, oss)
         /\ C17_OtherReadsRaw =>
               /\ ctrl_by = 2
               /\ (IF other_conv = "T" THEN other_raw_temperature'
                                       ELSE other_raw_pressure')
                     \in C17_OwnResults(other_conv, oss)]_vars

\* without serialization this interleaving is reached: read_temperature() of
\* the first caller has returned a value compensated from 0x5D23, the first
\* two bytes of the result of the pressure conversion that read_pressure()
\* of the second caller started after the first caller's command, and the
\* last command the control register took is the second caller's
C17_Witness ==
    /\ ~serialized
    /\ op = "read_temperature"
    /\ pc = "idle"
    /\ exc = "none"
    /\ Len(trace) = 4
    /\ IsWrite(trace[1], 244, 46)
    /\ IsRead(trace[4], 246, 2)
    /\ trace[4].data = <<93, 35>>
    /\ raw_temperature = 23843
    /\ other_op = "read_pressure"
    /\ ctrl_by = 2

(***************************************************************************)
(* C18                                                                     *)
(***************************************************************************)
\* the raw read entry e of the trace delivered n bytes of 0xF6
C18_RawRead(e, n) == IsRead(e, 246, n) /\ e.ok

\* C18: the raw pressure the measurement in progress has read is the
\* unsigned big-endian value of the 3 bytes read from 0xF6, shifted right by
\* 8 - oss, and lies in [0, 2^(16+oss)) when oss is in 0..3; the raw
\* temperature it has read is the unsigned big-endian value of the 2 bytes
\* read, and lies in [0, 2^16).
C18_RawValues ==
    \A i \in 1..Len(trace) :
       /\ C18_RawRead(trace[i], 3) /\ oss \in 0..3 =>
             /\ raw_pressure = BigEndian3(trace[i].data) \div 2 ^ (8 - oss)
             /\ raw_pressure >= 0
             /\ raw_pressure < 2 ^ (16 + oss)
       /\ C18_RawRead(trace[i], 2) =>
             /\ raw_temperature = BigEndian2(trace[i].data)
             /\ raw_temperature >= 0
             /\ raw_temperature < 2 ^ 16

\* the bytes FF FF FF were read as the raw pressure at oss = 3, which is
\* 2^19 - 1, and the bytes FF FF as the raw temperature, which is 2^16 - 1
C18_Witness ==
    /\ op = "read_pressure"
    /\ oss = 3
    /\ Len(trace) = 8
    /\ C18_RawRead(trace[4], 3)
    /\ trace[4].data = <<255, 255, 255>>
    /\ raw_pressure = 524287
    /\ C18_RawRead(trace[8], 2)
    /\ trace[8].data = <<255, 255>>
    /\ raw_temperature = 65535

(***************************************************************************)
(* C19                                                                     *)
(***************************************************************************)
\* C19: the cached calibration coefficients change only during a refresh:
\* no step of read_temperature(), read_pressure(), reset() or a chip_id
\* access, whether the operation returns or raises, and no change of the
\* sensor changes any of the 11 coefficients.
C19_CalibrationFrame ==
    [][op' \notin {"init", "recalibrate"} => cal' = cal]_vars

\* the calibration memory of the sensor no longer holds the datasheet's
\* example, the second operation after the constructor is a measurement
\* that raised, and the coefficients are still those a refresh stored from
\* the datasheet's example
C19_Witness ==
    /\ calls = 2
    /\ op \in {"read_temperature", "read_pressure"}
    /\ pc = "idle"
    /\ exc \in {"OSError", "AssertionError"}
    /\ dev_image # 1
    /\ cal = CalOf(Images[1])

(***************************************************************************)
(* C20                                                                     *)
(***************************************************************************)
\* C20, as the claim states it: the oversampling setting of a constructed
\* driver is in 0..3 whatever the caller has passed, and read_pressure()
\* neither fails to make a one-byte command (OverflowError) nor misses the
\* wait in the 4-entry table (IndexError).
C20_OssInRange ==
    Constructed =>
        /\ oss \in 0..3
        /\ op = "read_pressure" => exc \notin {"OverflowError", "IndexError"}

\* the constructor has taken oss = 4; read_pressure() has written the low
\* byte 0x34 of the command 0x134 to 0xF4 and has raised IndexError at the
\* lookup of the wait, with the conversion started and nothing read
C20_Witness ==
    /\ oss = 4
    /\ op = "read_pressure"
    /\ pc = "idle"
    /\ exc = "IndexError"
    /\ Len(trace) = 1
    /\ IsWrite(trace[1], 244, 52)
    /\ trace[1].ok
    /\ Bit5(dev_ctrl) = 1
====
